---- MODULE Spec2Model ----
(***************************************************************************)
(* Model of tools/download_resumable.py: download_file_resumable, run any  *)
(* number of times, one invocation at a time, against one (URL,            *)
(* destination).  The destination file, the locals of the running          *)
(* invocation and the position of its control are the state; the server,   *)
(* the network and the user's Ctrl-C are the environment.                  *)
(*   Spec      invocations one after the other, any failure anywhere       *)
(*   SpecLive  a caller that runs the script again until it completes      *)
(*   SpecConc  a second invocation running at the same time                *)
(***************************************************************************)
EXTENDS Integers, Sequences, FiniteSets, TLC

\* ------------------------------------------------------------------ bounds
\* Length of the remote resource, in bytes.
RemoteLen == 3
\* chunk_size, in bytes (the parameter of download_file_resumable).
ChunkSize == 2
\* Number of invocations a behaviour may hold.
MaxInvocations == 3

\* The remote content: byte i of the resource is i, so that a file is a
\* prefix of the resource only when its bytes are the right ones in order.
Remote == [i \in 1..RemoteLen |-> i]
\* A destination left by something else than this download.
Junk == <<9, 9>>
\* The body of an error page.
ErrorPage == <<0>>

Min(a, b) == IF a < b THEN a ELSE b
Prefix(s, n) == SubSeq(s, 1, n)
IsPrefix(s, t) == Len(s) <= Len(t) /\ s = Prefix(t, Len(s))

VARIABLES
    \* the filesystem
    exists,          \* os.path.exists(dest_path)
    file,            \* the bytes of dest_path (<<>> when it does not exist)
    \* the running invocation
    pc,              \* the point of control
    current_size,
    mode,            \* 'wb' or 'ab'
    headers,         \* {} or {k}: Range: bytes=k-
    status,          \* response.status_code, 0 before there is a response
    content_length,  \* {} or {n}: the Content-Length header of the response
    body,            \* the part of the body the stream has not yielded yet
    total_size,
    chunk,           \* the chunk the loop holds
    downloaded_in_session,
    fileOpen,        \* f is open
    respOpen,        \* the response of this invocation (its connection) is open
    outcome,         \* how the last invocation ended
    \* bookkeeping of the run, read by the properties only
    gets,            \* calls of requests.get in this invocation
    opened,          \* open(dest_path, mode) was called in this invocation
    existing,        \* the size the probe of this invocation measured
    fileAtStart,     \* file and exists when this invocation began
    existsAtStart,
    sent,            \* the body the server sent in this invocation
    truncated,       \* the stream of this invocation ended before the body's end
    prevSize,        \* current_size and outcome of the invocation before
    prevOutcome,
    faithful,        \* every response so far honoured Range and no stream was cut
    init0,           \* the destination the run began with
    invocations,
    writes,          \* the sizes of the f.write calls of this invocation
    events,          \* the progress lines of this invocation
    plain,           \* no response so far had a status other than 200, 206, 416, 4xx, 5xx
    \* a second invocation, run at the same time by another process
    peer,            \* its destination, its locals and its point of control
    otherExists,     \* a second destination path
    otherFile

fsVars == <<exists, file>>
localVars == <<current_size, mode, headers, status, content_length, body,
               total_size, chunk, downloaded_in_session>>
histVars == <<gets, opened, existing, fileAtStart, existsAtStart, sent,
              truncated, prevSize, prevOutcome, faithful, init0, invocations>>
logVars == <<writes, events, plain>>
peerVars == <<peer, otherExists, otherFile>>
vars == <<exists, file, pc, current_size, mode, headers, status,
          content_length, body, total_size, chunk, downloaded_in_session,
          fileOpen, respOpen, outcome, gets, opened, existing, fileAtStart,
          existsAtStart, sent, truncated, prevSize, prevOutcome, faithful,
          init0, invocations, writes, events, plain, peer, otherExists,
          otherFile>>

\* ------------------------------------------------------------ the server
ServerKinds == {"range", "norange", "s203", "s204", "s404"}

\* What a server of kind k answers to a GET with the headers h.
ServerStatus(k, h) ==
    CASE k = "range" ->
            IF h = {} THEN 200
            ELSE IF (CHOOSE x \in h : TRUE) < RemoteLen THEN 206 ELSE 416
      [] k = "norange" -> 200
      [] k = "s203" -> 203
      [] k = "s204" -> 204
      [] OTHER -> 404

ServerBody(k, h) ==
    CASE k = "range" ->
            IF h = {} THEN Remote
            ELSE IF (CHOOSE x \in h : TRUE) < RemoteLen
                 THEN SubSeq(Remote, (CHOOSE x \in h : TRUE) + 1, RemoteLen)
                 ELSE <<>>
      [] k = "norange" -> Remote
      [] k = "s203" -> Remote
      [] k = "s204" -> <<>>
      [] OTHER -> ErrorPage

\* ------------------------------------------------------------------ Init
InitFiles == {Prefix(Remote, n) : n \in 0..RemoteLen} \cup {Junk}

Init ==
    /\ exists \in BOOLEAN
    /\ file \in (IF exists THEN InitFiles ELSE {<<>>})
    /\ init0 = IF ~exists THEN "absent"
               ELSE IF IsPrefix(file, Remote) THEN "prefix" ELSE "junk"
    /\ pc = "idle"
    /\ current_size = 0
    /\ mode = "wb"
    /\ headers = {}
    /\ status = 0
    /\ content_length = {}
    /\ body = <<>>
    /\ total_size = 0
    /\ chunk = <<>>
    /\ downloaded_in_session = 0
    /\ fileOpen = FALSE
    /\ respOpen = FALSE
    /\ outcome = "None"
    /\ gets = 0
    /\ opened = FALSE
    /\ existing = 0
    /\ fileAtStart = file
    /\ existsAtStart = exists
    /\ sent = <<>>
    /\ truncated = FALSE
    /\ prevSize = 0
    /\ prevOutcome = "None"
    /\ faithful = TRUE
    /\ invocations = 0
    /\ writes = <<>>
    /\ events = <<>>
    /\ plain = TRUE
    /\ peer = [pc |-> "off", dest |-> "none", current_size |-> 0,
               mode |-> "wb", headers |-> {}, status |-> 0, body |-> <<>>,
               downloaded_in_session |-> 0]
    /\ otherExists = FALSE
    /\ otherFile = <<>>

\* --------------------------------------------------------------- actions
\* Lines 6-11: the function is entered, for the n-th time.
Begin(n) ==
    /\ pc = "idle"
    /\ pc' = "probe"
    /\ current_size' = 0
    /\ mode' = "wb"
    /\ headers' = {}
    /\ status' = 0
    /\ content_length' = {}
    /\ body' = <<>>
    /\ total_size' = 0
    /\ chunk' = <<>>
    /\ downloaded_in_session' = 0
    /\ outcome' = "None"
    /\ respOpen' = FALSE
    /\ gets' = 0
    /\ opened' = FALSE
    /\ existing' = 0
    /\ fileAtStart' = file
    /\ existsAtStart' = exists
    /\ sent' = <<>>
    /\ truncated' = FALSE
    /\ prevSize' = current_size
    /\ prevOutcome' = outcome
    /\ invocations' = n
    /\ writes' = <<>>
    /\ events' = <<>>
    /\ UNCHANGED <<peerVars, fsVars, fileOpen, faithful, init0, plain>>

\* Lines 75-82: the script is run, a bounded number of times.
Start ==
    /\ invocations < MaxInvocations
    /\ Begin(invocations + 1)

\* Line 13: os.path.exists(dest_path).
Probe ==
    /\ pc = "probe"
    /\ pc' = IF exists THEN "getsize" ELSE "headers"
    /\ UNCHANGED <<peerVars, logVars, fsVars, localVars, histVars, fileOpen, respOpen, outcome>>

\* A probe that keeps the default mode for a destination that exists.
ModeForExisting_Truncate == "wb"

\* Line 15: the mode chosen for a destination that exists.
ModeForExisting == "ab"

\* Lines 14-16: os.path.getsize(dest_path) answers.
GetSize ==
    /\ pc = "getsize"
    /\ current_size' = Len(file)
    /\ mode' = ModeForExisting
    /\ pc' = "headers"
    /\ UNCHANGED <<peerVars, logVars, fsVars, headers, status, content_length, body, total_size,
                   chunk, downloaded_in_session, histVars, fileOpen, respOpen,
                   outcome>>

\* Line 14: os.path.getsize raises OSError (the size cannot be read).  The
\* statement is outside the try of line 23: the exception leaves the function.
GetSizeError ==
    /\ pc = "getsize"
    /\ pc' = "idle"
    /\ outcome' = "Raised"
    /\ UNCHANGED <<peerVars, logVars, fsVars, localVars, histVars, fileOpen, respOpen>>

\* A header sent whatever the size, bytes=0- for an empty destination.
RangeHeader_Always(size) == {size}

\* Lines 18-20: the Range header for the probed size.
RangeHeader(size) == IF size > 0 THEN {size} ELSE {}

\* Lines 18-21.
BuildHeaders ==
    /\ pc = "headers"
    /\ headers' = RangeHeader(current_size)
    /\ existing' = current_size
    /\ pc' = "request"
    /\ UNCHANGED <<peerVars, logVars, fsVars, current_size, mode, status, content_length, body,
                   total_size, chunk, downloaded_in_session, fileOpen,
                   respOpen, outcome, gets, opened, fileAtStart,
                   existsAtStart, sent, truncated, prevSize, prevOutcome,
                   faithful, init0, invocations>>

\* Ctrl-C while lines 10-21 run: they are outside the try of line 23, so the
\* KeyboardInterrupt leaves the function.
InterruptProbe ==
    /\ pc \in {"probe", "getsize", "headers"}
    /\ pc' = "idle"
    /\ outcome' = "Raised"
    /\ UNCHANGED <<peerVars, logVars, fsVars, localVars, histVars, fileOpen, respOpen>>

\* Line 41: response.raise_for_status() raises HTTPError for 4xx and 5xx only.
RaisesForStatus(st) == 400 <= st /\ st < 600

\* Line 24: requests.get(url, headers=headers, stream=True) returns a response.
Get ==
    /\ pc = "request"
    /\ \E k \in ServerKinds, withLength \in BOOLEAN :
          /\ status' = ServerStatus(k, headers)
          /\ body' = ServerBody(k, headers)
          /\ sent' = ServerBody(k, headers)
          /\ content_length' = IF withLength THEN {Len(ServerBody(k, headers))}
                               ELSE {}
          /\ faithful' = (faithful /\ k = "range")
          /\ plain' = (plain /\ (ServerStatus(k, headers) \in {200, 206, 416}
                                   \/ RaisesForStatus(ServerStatus(k, headers))))
    /\ gets' = gets + 1
    /\ respOpen' = TRUE
    /\ pc' = "classify"
    /\ UNCHANGED <<peerVars, writes, events, fsVars, current_size, mode, headers, total_size, chunk,
                   downloaded_in_session, fileOpen, outcome, opened, existing,
                   fileAtStart, existsAtStart, truncated, prevSize,
                   prevOutcome, init0, invocations>>

\* A handler that asks again after a network error instead of returning.
GetError_Retry ==
    /\ pc = "request"
    /\ gets' = gets + 1
    /\ pc' = "request"
    /\ UNCHANGED <<peerVars, logVars, fsVars, localVars, fileOpen, respOpen, outcome, opened,
                   existing, fileAtStart, existsAtStart, sent, truncated,
                   prevSize, prevOutcome, faithful, init0, invocations>>

\* Line 24 raises (connection refused or reset, timeout); lines 71-73.
GetError ==
    /\ pc = "request"
    /\ gets' = gets + 1
    /\ pc' = "idle"
    /\ outcome' = "Failed"
    /\ UNCHANGED <<peerVars, logVars, fsVars, localVars, fileOpen, respOpen, opened, existing,
                   fileAtStart, existsAtStart, sent, truncated, prevSize,
                   prevOutcome, faithful, init0, invocations>>

\* A 416 branch without its return: the function goes on to lines 43-49.
Return416_FallThrough ==
    /\ pc = "classify"
    /\ status = 416
    /\ pc' = "total"
    /\ UNCHANGED <<peerVars, logVars, fsVars, localVars, histVars, fileOpen, respOpen, outcome>>

\* Lines 26-28: status 416, return.
Return416 ==
    /\ pc = "classify"
    /\ status = 416
    /\ pc' = "idle"
    /\ outcome' = "Completed"
    /\ UNCHANGED <<peerVars, logVars, fsVars, localVars, histVars, fileOpen, respOpen>>

\* A restart that forgets line 36 and keeps the append mode.
ClassifyMode_Keep(st, size, m) == m

\* Lines 32-36: the size and the mode after the status was looked at.
ClassifySize(st, size) == IF st = 200 /\ size > 0 THEN 0 ELSE size
ClassifyMode(st, size, m) == IF st = 200 /\ size > 0 THEN "wb" ELSE m

\* Lines 30-41, for a status that lets the function go on.
Classify ==
    /\ pc = "classify"
    /\ status # 416
    /\ status \in {200, 206} \/ ~RaisesForStatus(status)
    /\ current_size' = ClassifySize(status, current_size)
    /\ mode' = ClassifyMode(status, current_size, mode)
    /\ pc' = "total"
    /\ UNCHANGED <<peerVars, logVars, fsVars, headers, status, content_length, body, total_size,
                   chunk, downloaded_in_session, histVars, fileOpen, respOpen,
                   outcome>>

\* Lines 39-41 and 71-73: raise_for_status raises, the handler reports it.
UnexpectedStatus ==
    /\ pc = "classify"
    /\ status \notin {200, 206, 416}
    /\ RaisesForStatus(status)
    /\ pc' = "idle"
    /\ outcome' = "Failed"
    /\ UNCHANGED <<peerVars, logVars, fsVars, localVars, histVars, fileOpen, respOpen>>

\* A total that forgets line 45.
TotalSize_NoAdd(st, cl, size) == IF cl = {} THEN 0 ELSE CHOOSE n \in cl : TRUE

\* Lines 43-45: int(response.headers.get('content-length', 0)), plus the
\* size already there for a 206.
TotalSize(st, cl, size) ==
    (IF cl = {} THEN 0 ELSE CHOOSE n \in cl : TRUE)
        + (IF st = 206 THEN size ELSE 0)

\* Lines 43-47.
Total ==
    /\ pc = "total"
    /\ total_size' = TotalSize(status, content_length, current_size)
    /\ pc' = "open"
    /\ UNCHANGED <<peerVars, logVars, fsVars, current_size, mode, headers, status, content_length,
                   body, chunk, downloaded_in_session, histVars, fileOpen,
                   respOpen, outcome>>

\* Line 49: what open(dest_path, m) leaves in a destination holding f.
OpenedFile(m, f) == IF m = "wb" THEN <<>> ELSE f

\* Line 49.
Open ==
    /\ pc = "open"
    /\ file' = OpenedFile(mode, file)
    /\ exists' = TRUE
    /\ fileOpen' = TRUE
    /\ opened' = TRUE
    /\ pc' = "stream"
    /\ UNCHANGED <<peerVars, logVars, localVars, respOpen, outcome, gets, existing, fileAtStart,
                   existsAtStart, sent, truncated, prevSize, prevOutcome,
                   faithful, init0, invocations>>

\* Line 49 raises OSError (no permission, no such directory); lines 71-73.
OpenError ==
    /\ pc = "open"
    /\ pc' = "idle"
    /\ outcome' = "Failed"
    /\ UNCHANGED <<peerVars, logVars, fsVars, localVars, histVars, fileOpen, respOpen>>

\* An iterator that yields whatever the connection has, up to chunk_size.
ChunkLengths_Any(b, cl) == 1..Min(ChunkSize, Len(b))

\* Line 53: the sizes iter_content(chunk_size) may yield next from the body b.
\* A body of declared length is read chunk_size bytes at a time, the rest at
\* its end; a body without Content-Length (chunked transfer coding) comes in
\* the pieces the server cut, none longer than chunk_size.
ChunkLengths(b, cl) ==
    IF cl = {} THEN 1..Min(ChunkSize, Len(b)) ELSE {Min(ChunkSize, Len(b))}

\* Line 53: a chunk of n bytes taken from the body b, and what is left.
FirstChunk(b, n) == SubSeq(b, 1, n)
RestOfBody(b, n) == SubSeq(b, n + 1, Len(b))

\* Lines 53-54: the loop takes the next chunk.
NextChunk ==
    /\ pc = "stream"
    /\ body # <<>>
    /\ \E n \in ChunkLengths(body, content_length) :
          /\ chunk' = FirstChunk(body, n)
          /\ body' = RestOfBody(body, n)
    /\ pc' = "write"
    /\ UNCHANGED <<peerVars, logVars, fsVars, current_size, mode, headers, status, content_length,
                   total_size, downloaded_in_session, histVars, fileOpen,
                   respOpen, outcome>>

\* Lines 53, 67: the body is exhausted, the with block closes the file,
\* "Download complete!".  The exhausted stream releases its connection.
StreamEnd ==
    /\ pc = "stream"
    /\ body = <<>>
    /\ pc' = "idle"
    /\ outcome' = "Completed"
    /\ fileOpen' = FALSE
    /\ respOpen' = FALSE
    /\ UNCHANGED <<peerVars, logVars, fsVars, localVars, histVars>>

\* Lines 53, 67: the connection ends before the body's end and the iterator
\* just stops (urllib3 1.x does not enforce Content-Length): the loop ends as
\* for an exhausted body.
StreamCut ==
    /\ pc = "stream"
    /\ body # <<>>
    /\ pc' = "idle"
    /\ outcome' = "Completed"
    /\ fileOpen' = FALSE
    /\ respOpen' = FALSE
    /\ truncated' = TRUE
    /\ faithful' = FALSE
    /\ UNCHANGED <<peerVars, logVars, fsVars, localVars, gets, opened, existing, fileAtStart,
                   existsAtStart, sent, prevSize, prevOutcome, init0,
                   invocations>>

\* Line 53 raises (connection reset, IncompleteRead of urllib3 2.x); the with
\* block closes the file, lines 71-73.  The failed connection is closed.
StreamError ==
    /\ pc = "stream"
    /\ pc' = "idle"
    /\ outcome' = "Failed"
    /\ fileOpen' = FALSE
    /\ respOpen' = FALSE
    /\ UNCHANGED <<peerVars, logVars, fsVars, localVars, histVars>>

\* The bytes c put at offset off of a file holding f; a gap before them
\* reads as zeros.
PutAt(f, off, c) ==
    [i \in 1..(IF Len(f) > off + Len(c) THEN Len(f) ELSE off + Len(c)) |->
        IF i > off /\ i <= off + Len(c) THEN c[i - off]
        ELSE IF i <= Len(f) THEN f[i] ELSE 0]

\* A handle that writes at its own offset in append mode too.
WrittenFile_NoAppend(f, m, off, c) == PutAt(f, off, c)

\* Lines 49, 55: what f.write(c) leaves in a file holding f, for a handle
\* opened in mode m that has written off bytes: 'ab' writes at the end of
\* the file whatever it is now, 'wb' at the handle's own offset.
WrittenFile(f, m, off, c) == IF m = "ab" THEN f \o c ELSE PutAt(f, off, c)

\* Line 55: f.write(chunk).
Write ==
    /\ pc = "write"
    /\ chunk # <<>>
    /\ file' = WrittenFile(file, mode, downloaded_in_session, chunk)
    /\ writes' = Append(writes, Len(chunk))
    /\ pc' = "count"
    /\ UNCHANGED <<peerVars, events, plain, exists, localVars, histVars, fileOpen, respOpen, outcome>>

\* Line 63: the percentage of the progress line.
Percent(size, total) == IF total > 0 THEN (size * 100) \div total ELSE 0

\* Line 64: the progress line (its speed, a matter of clocks, left out).
ProgressLine(size, total) == [percent |-> {Percent(size, total)}, bytes |-> size]

\* Lines 56-65: the counters and the progress line.
Count ==
    /\ pc = "count"
    /\ current_size' = current_size + Len(chunk)
    /\ downloaded_in_session' = downloaded_in_session + Len(chunk)
    /\ events' = Append(events,
                        ProgressLine(current_size + Len(chunk), total_size))
    /\ pc' = "stream"
    /\ UNCHANGED <<peerVars, writes, plain, fsVars, mode, headers, status, content_length, body,
                   total_size, chunk, histVars, fileOpen, respOpen, outcome>>

\* Ctrl-C between two statements of lines 23-67; the with block, when
\* entered, closes the file; lines 69-70.
KeyboardInterrupt ==
    /\ pc \in {"request", "classify", "total", "open", "stream", "count"}
    /\ pc' = "idle"
    /\ outcome' = "Interrupted"
    /\ fileOpen' = FALSE
    /\ UNCHANGED <<peerVars, logVars, fsVars, localVars, histVars, respOpen>>

\* Ctrl-C while f.write(chunk) of line 55 runs: the bytes the write had
\* passed on are in the file when the with block closes it; lines 69-70.
InterruptedWrite ==
    /\ pc = "write"
    /\ \E n \in 0..Len(chunk) :
          file' = WrittenFile(file, mode, downloaded_in_session,
                              Prefix(chunk, n))
    /\ pc' = "idle"
    /\ outcome' = "Interrupted"
    /\ fileOpen' = FALSE
    /\ UNCHANGED <<peerVars, logVars, exists, localVars, histVars, respOpen>>

Next ==
    \/ Start
    \/ Probe
    \/ GetSize
    \/ GetSizeError
    \/ BuildHeaders
    \/ InterruptProbe
    \/ Get
    \/ GetError
    \/ Return416
    \/ Classify
    \/ UnexpectedStatus
    \/ Total
    \/ Open
    \/ OpenError
    \/ NextChunk
    \/ StreamEnd
    \/ StreamCut
    \/ StreamError
    \/ Write
    \/ Count
    \/ KeyboardInterrupt
    \/ InterruptedWrite

Spec == Init /\ [][Next]_vars

\* ------------------------------------------ a second, concurrent invocation
\* download_file_resumable called by another process while the first may be
\* running, for the same destination or for another one.  It meets no error
\* and no Ctrl-C; the steps that touch no file are taken together.
PeerFile == IF peer.dest = "same" THEN file ELSE otherFile
PeerExists == IF peer.dest = "same" THEN exists ELSE otherExists

\* The destination of the second invocation becomes f.
SetPeerFile(f) ==
    IF peer.dest = "same"
    THEN /\ file' = f
         /\ exists' = TRUE
         /\ UNCHANGED <<otherFile, otherExists>>
    ELSE /\ otherFile' = f
         /\ otherExists' = TRUE
         /\ UNCHANGED <<file, exists>>

\* What the second invocation leaves alone of the first.
firstVars == <<pc, localVars, histVars, writes, events, plain, fileOpen,
               respOpen, outcome>>

\* Lines 6-11: the second invocation begins.
PeerStart ==
    /\ peer.pc = "off"
    /\ \E d \in {"same", "other"} :
          peer' = [peer EXCEPT !.pc = "probe", !.dest = d]
    /\ UNCHANGED <<fsVars, firstVars, otherExists, otherFile>>

\* Lines 13-21: the probe and the headers.
PeerProbe ==
    /\ peer.pc = "probe"
    /\ peer' = [peer EXCEPT
                  !.pc = "request",
                  !.current_size = IF PeerExists THEN Len(PeerFile) ELSE 0,
                  !.mode = IF PeerExists THEN ModeForExisting ELSE "wb",
                  !.headers = RangeHeader(IF PeerExists THEN Len(PeerFile)
                                          ELSE 0)]
    /\ UNCHANGED <<fsVars, firstVars, otherExists, otherFile>>

\* Lines 24-47: the request, answered 200, 206 or 416, and its classification.
PeerGet ==
    /\ peer.pc = "request"
    /\ \E k \in {"range", "norange"} :
          /\ peer' = [peer EXCEPT
                        !.pc = IF ServerStatus(k, peer.headers) = 416
                               THEN "done" ELSE "open",
                        !.status = ServerStatus(k, peer.headers),
                        !.body = ServerBody(k, peer.headers),
                        !.current_size =
                            ClassifySize(ServerStatus(k, peer.headers),
                                         peer.current_size),
                        !.mode =
                            ClassifyMode(ServerStatus(k, peer.headers),
                                         peer.current_size, peer.mode)]
          /\ faithful' = (faithful /\ k = "range")
    /\ UNCHANGED <<fsVars, pc, localVars, gets, opened, existing, fileAtStart,
                   existsAtStart, sent, truncated, prevSize, prevOutcome,
                   init0, invocations, writes, events, plain, fileOpen,
                   respOpen, outcome, otherExists, otherFile>>

\* Line 49.
PeerOpen ==
    /\ peer.pc = "open"
    /\ SetPeerFile(OpenedFile(peer.mode, PeerFile))
    /\ peer' = [peer EXCEPT !.pc = "stream"]
    /\ UNCHANGED firstVars

\* Lines 53-57: the next chunk is taken, written and counted.
PeerWrite ==
    /\ peer.pc = "stream"
    /\ peer.body # <<>>
    /\ \E n \in ChunkLengths(peer.body, {Len(peer.body)}) :
          /\ SetPeerFile(WrittenFile(PeerFile, peer.mode,
                                     peer.downloaded_in_session,
                                     FirstChunk(peer.body, n)))
          /\ peer' = [peer EXCEPT
                        !.body = RestOfBody(peer.body, n),
                        !.current_size = peer.current_size + n,
                        !.downloaded_in_session =
                            peer.downloaded_in_session + n]
    /\ UNCHANGED firstVars

\* Lines 53, 67: the body is exhausted, "Download complete!".
PeerEnd ==
    /\ peer.pc = "stream"
    /\ peer.body = <<>>
    /\ peer' = [peer EXCEPT !.pc = "done"]
    /\ UNCHANGED <<fsVars, firstVars, otherExists, otherFile>>

PeerNext ==
    \/ PeerStart
    \/ PeerProbe
    \/ PeerGet
    \/ PeerOpen
    \/ PeerWrite
    \/ PeerEnd

\* The first process runs the script once while the second runs its own.
ConcNext ==
    \/ (Next /\ invocations' <= 1)
    \/ PeerNext

SpecConc == Init /\ [][ConcNext]_vars

\* ------------------------------------------------- the caller that retries
\* Lines 70, 73 ("Run again to resume"): the caller runs the script after
\* every invocation that did not end with "Download complete!" or the 416
\* message, as often as it takes; its runs are not counted.
Reinvoke ==
    /\ outcome # "Completed"
    /\ Begin(invocations)

\* The steps of the function itself, its files and its responses included.
ProgramStep ==
    \/ Reinvoke
    \/ Probe
    \/ GetSize
    \/ BuildHeaders
    \/ (Get /\ status' \in {200, 206, 416})
    \/ Return416
    \/ Classify
    \/ Total
    \/ Open
    \/ NextChunk
    \/ StreamEnd
    \/ Write
    \/ Count

\* Ctrl-C and network failures, none before the invocation has written and
\* counted a chunk.
LateInterruption ==
    /\ downloaded_in_session > 0
    /\ \/ KeyboardInterrupt
       \/ InterruptedWrite
       \/ StreamError

LiveNext == ProgramStep \/ LateInterruption

\* The interpreter keeps running the function and the caller keeps running
\* the script: a step of the program that stays possible is taken.
SpecLive == Init /\ [][LiveNext]_vars /\ WF_vars(ProgramStep)

TypeOK ==
    /\ exists \in BOOLEAN
    /\ pc \in {"idle", "probe", "getsize", "headers", "request", "classify",
               "total", "open", "stream", "write", "count"}
    /\ mode \in {"wb", "ab"}
    /\ outcome \in {"None", "Completed", "Interrupted", "Failed", "Raised"}
    /\ current_size \in Nat
    /\ total_size \in Nat
    /\ (~exists => file = <<>>)

\* ------------------------------------------------------------ properties
Ended == pc = "idle" /\ outcome # "None"
ContentLength == CHOOSE n \in content_length : TRUE

\* C1 (idempotent resume): starting with no destination file, against a
\* server that honours Range on every request and whose streams are not cut,
\* whatever the number of invocations that were interrupted (or failed) and
\* wherever they were, an invocation that ends Completed leaves the
\* destination equal to the full remote content.
C1_IdempotentResume ==
    (init0 = "absent" /\ faithful /\ Ended /\ outcome = "Completed")
        => file = Remote

\* An interrupted invocation left a part, the third invocation resumed it
\* with a 206 and completed.
C1_Witness ==
    /\ init0 = "absent" /\ faithful /\ Ended /\ outcome = "Completed"
    /\ invocations = 3 /\ prevOutcome = "Interrupted"
    /\ status = 206 /\ existing > 0 /\ file = Remote

\* C2 (no double-write): the size the probe of invocation n+1 measures equals
\* the current_size invocation n held when it ended Completed or Interrupted.
C2_NoDoubleWrite ==
    (pc = "request" /\ prevOutcome \in {"Completed", "Interrupted"})
        => current_size = prevSize

\* C3 (restart correctness): the destination held K > 0 bytes, the server
\* answered 200 with the full body and the body was streamed to its end: the
\* file is the body alone, its size the reported Content-Length (and the
\* total the code computed), not K + Content-Length.
C3_RestartCorrectness ==
    (Ended /\ outcome = "Completed" /\ status = 200 /\ existing > 0
        /\ ~truncated)
        => /\ file = sent
           /\ current_size = Len(sent)
           /\ content_length # {} =>
                 /\ Len(file) = ContentLength
                 /\ total_size = ContentLength
                 /\ Len(file) # existing + ContentLength

\* A destination of K > 0 bytes was overwritten by a 200 body of known length.
C3_Witness ==
    /\ Ended /\ outcome = "Completed" /\ status = 200 /\ existing > 0
    /\ ~truncated /\ content_length # {} /\ fileAtStart # <<>>
    /\ file = Remote

\* C4 (already complete): after a 416 the destination is never opened, no
\* byte is written, the file is as it was and, unless a Ctrl-C arrived
\* before line 28, the invocation ends Completed.
C4_AlreadyComplete ==
    status = 416
        => /\ ~opened /\ ~fileOpen
           /\ downloaded_in_session = 0
           /\ file = fileAtStart /\ exists = existsAtStart
           /\ pc \in {"classify", "idle"}
           /\ (Ended /\ outcome # "Interrupted") => outcome = "Completed"

\* A complete destination, a 416, the invocation over.
C4_Witness ==
    /\ status = 416 /\ Ended /\ outcome = "Completed"
    /\ file = Remote /\ existing = RemoteLen

\* C5 (other statuses fail): for a status other than 200, 206 and 416 the
\* destination is neither created, truncated nor appended to, and the
\* invocation ends Failed (Interrupted when a Ctrl-C arrived).
C5_OtherStatusFails ==
    status \notin {0, 200, 206, 416}
        => /\ ~opened
           /\ file = fileAtStart /\ exists = existsAtStart
           /\ (Ended /\ outcome # "Interrupted") => outcome = "Failed"

\* C6 (resume on 206): the destination held K > 0 bytes and the server
\* answered 206 with R bytes: the mode is append, the K bytes stay, the
\* total is K + R and, the stream over, the file is the K bytes followed by
\* the body, K + R bytes, Completed.
C6_ResumeOn206 ==
    (status = 206 /\ existing > 0)
        => /\ mode = "ab"
           /\ IsPrefix(fileAtStart, file)
           /\ (opened /\ content_length # {})
                 => total_size = existing + ContentLength
           /\ (Ended /\ outcome = "Completed" /\ ~truncated)
                 => /\ file = fileAtStart \o sent
                    /\ Len(file) = existing + Len(sent)
                    /\ current_size = Len(file)

\* A part of K > 0 bytes was completed by a 206 of known length.
C6_Witness ==
    /\ status = 206 /\ existing > 0 /\ Ended /\ outcome = "Completed"
    /\ ~truncated /\ content_length # {} /\ opened
    /\ total_size = RemoteLen /\ Len(file) = RemoteLen

\* C7 (completion invariant): an invocation that ends with "Download
\* complete!" and a known, nonzero total has current_size = total_size.
C7_CompletionInvariant ==
    (Ended /\ outcome = "Completed" /\ status # 416 /\ total_size > 0)
        => current_size = total_size

\* C8 (resource release): when the invocation is over, the file handle and
\* the response are closed.
C8_ResourceRelease ==
    Ended => (~fileOpen /\ ~respOpen)

\* C9 (no internal retry): an invocation calls requests.get at most once,
\* exactly once when there is a response or it ended Failed; the step that
\* ends it Failed or Interrupted makes no request and takes nothing from the
\* file (a Failed one leaves it as it is), and the next probe measures what
\* was left.
C9_NoInternalRetry ==
    /\ [](/\ gets <= 1
          /\ status # 0 => gets = 1
          /\ (Ended /\ outcome = "Failed") => gets = 1
          /\ pc = "request" => (existing = Len(file) /\ file = fileAtStart))
    /\ [][(pc # "idle" /\ pc' = "idle" /\ outcome' \in {"Failed", "Interrupted"})
            => /\ IsPrefix(file, file')
               /\ exists' = exists
               /\ status' = status
               /\ outcome' = "Failed" => file' = file]_vars

\* A stream that failed after bytes were appended: one request, the bytes stay.
C9_Witness ==
    /\ Ended /\ outcome = "Failed" /\ gets = 1
    /\ status = 206 /\ Len(file) > existing

\* C10 (error propagation): no error leaves download_file_resumable; each
\* ends the invocation with a terminal status.
C10_ErrorsRecovered ==
    outcome # "Raised"


RECURSIVE SumSeq(_)
SumSeq(w) == IF w = <<>> THEN 0 ELSE w[1] + SumSeq(Tail(w))

\* ceil(S/C) writes, all of C bytes but the last, of S mod C bytes (C when 0).
ExactChunks(w, S, C) ==
    /\ Len(w) = (S + C - 1) \div C
    /\ \A i \in 1..(Len(w) - 1) : w[i] = C
    /\ Len(w) > 0 => w[Len(w)] = (IF S % C = 0 THEN C ELSE S % C)

\* A download from nothing that ran to the end of its body.
FreshCompleted ==
    /\ Ended /\ outcome = "Completed" /\ status = 200 /\ existing = 0
    /\ ~truncated

C12_CancellationGranularity ==
    (Ended /\ outcome = "Interrupted" /\ opened)
        => /\ Len(file) = Len(OpenedFile(mode, fileAtStart))
                            + (Len(sent) - Len(body))
           /\ current_size = Len(file)

\* C13 (range negotiation): the request carries Range exactly when the
\* destination held bytes at the probe, with the size it held then, which is
\* what the invocation before left; neither the header nor the probed size
\* changes later in the invocation.
C13_RangeNegotiation ==
    /\ [](gets >= 1
            => /\ existing = Len(fileAtStart)
               /\ headers = (IF Len(fileAtStart) > 0 THEN {Len(fileAtStart)}
                             ELSE {}))
    /\ [][pc \notin {"idle", "probe", "getsize", "headers"}
            => (headers' = headers /\ existing' = existing)]_vars

\* The request of an invocation that follows an interrupted one asks for the
\* bytes after the two that one left.
C13_Witness ==
    /\ gets = 1 /\ status = 206 /\ invocations >= 2
    /\ prevOutcome = "Interrupted"
    /\ headers = {2} /\ Len(fileAtStart) = 2


\* The size of the file after the i-th write of this invocation.
SizeAfterWrite(i) ==
    Len(OpenedFile(mode, fileAtStart)) + SumSeq(SubSeq(writes, 1, i))

\* C15 (progress events): between two chunks and after completion there is
\* one progress event per chunk written, each with the size of the file
\* after its write, with the percentage of the total when the total is
\* known and with no percentage at all when it is not (total = 0).
C15_ProgressEvents ==
    (pc = "stream" \/ (Ended /\ outcome = "Completed"))
        => /\ Len(events) = Len(writes)
           /\ \A i \in 1..Len(events) :
                 /\ events[i].bytes = SizeAfterWrite(i)
                 /\ total_size > 0 =>
                       events[i].percent = {(events[i].bytes * 100) \div total_size}
                 /\ total_size = 0 => events[i].percent = {}

\* C16 (prefix invariant): from an absent destination or a prefix of the
\* remote content, with responses of status 200, 206, 416, 4xx or 5xx and
\* interruptions and failures anywhere, the destination is a prefix of the
\* remote content in every state.
C16_PrefixInvariant ==
    (init0 # "junk" /\ plain) => IsPrefix(file, Remote)

\* A part was left, the next invocation was answered 200, restarted from
\* nothing and has written the first chunk again.
C16_Witness ==
    /\ init0 # "junk" /\ plain /\ invocations >= 2
    /\ prevOutcome \in {"Interrupted", "Failed"}
    /\ status = 200 /\ existing > 0 /\ pc = "count"
    /\ file = Prefix(Remote, Len(chunk)) /\ Len(file) < Len(fileAtStart)

\* C18 (zero-length destination): for a destination that exists with size 0
\* no Range header is sent, the mode is append and stays append after a 200
\* (no restart), and the completed download leaves exactly the body, as it
\* does for a destination that did not exist.
C18_ZeroLengthFile ==
    /\ (existsAtStart /\ fileAtStart = <<>> /\ gets >= 1)
          => /\ headers = {} /\ existing = 0
             /\ mode = "ab"
    /\ (fileAtStart = <<>> /\ status = 200 /\ Ended /\ outcome = "Completed"
           /\ ~truncated)
          => /\ file = sent
             /\ mode = (IF existsAtStart THEN "ab" ELSE "wb")

\* An empty destination was filled by a 200, in append mode.
C18_Witness ==
    /\ existsAtStart /\ fileAtStart = <<>> /\ status = 200
    /\ Ended /\ outcome = "Completed" /\ ~truncated
    /\ mode = "ab" /\ file = Remote


\* C17 (eventual completion): with a caller that runs the script again
\* after each interruption or failure and invocations that write a chunk
\* before they are interrupted, against a server that honours Range, some
\* invocation ends Completed with the destination equal to the remote
\* content.  Against a server that answers 200 to a Range request, the
\* invocation starts again from nothing: the file holds only what this
\* invocation wrote.
C17_EventualCompletion ==
    /\ <>(\/ init0 = "junk"
          \/ ~faithful
          \/ (Ended /\ outcome = "Completed" /\ file = Remote))
    /\ []((status = 200 /\ existing > 0 /\ opened /\ pc # "idle")
            => (Len(file) = SumSeq(writes) /\ IsPrefix(file, sent)))

\* An invocation left all the bytes but did not end; the next one was
\* answered 416 and ended the download.
C17_Witness ==
    /\ init0 = "absent" /\ faithful
    /\ prevOutcome \in {"Interrupted", "Failed"}
    /\ status = 416 /\ existing = RemoteLen
    /\ Ended /\ outcome = "Completed" /\ file = Remote


\* C14 (concurrent invocations): nothing serializes two invocations.  When
\* the second one has another destination, each file is changed by its own
\* invocation only, each stays a prefix of the remote content and the
\* second, run to its end, holds all of it; for one shared destination no
\* such thing holds (C14_Witness).
C14_Concurrency ==
    /\ []((peer.dest # "same" /\ init0 # "junk" /\ plain)
            => /\ IsPrefix(file, Remote)
               /\ IsPrefix(otherFile, Remote)
               /\ peer.pc = "done" => otherFile = Remote)
    /\ [][peer.dest' = "other"
            => /\ (file' # file \/ exists' # exists) => peer' = peer
               /\ (otherFile' # otherFile \/ otherExists' # otherExists)
                     => (file' = file /\ exists' = exists /\ pc' = pc)]_vars

\* Both invocations probed the same part, both were answered 206 by a server
\* that honours Range, both appended and completed: the destination is
\* longer than the resource.
C14_Witness ==
    /\ peer.dest = "same" /\ init0 = "prefix" /\ plain /\ faithful
    /\ status = 206 /\ peer.status = 206
    /\ existing = peer.current_size - peer.downloaded_in_session
    /\ Ended /\ outcome = "Completed" /\ ~truncated
    /\ peer.pc = "done"
    /\ Len(file) > RemoteLen
    /\ ~IsPrefix(file, Remote)


====
